---------------------------- MODULE Spec2Model ----------------------------
(***************************************************************************)
(* A model of the search core of meilisearch-sdk:                          *)
(*   - search.rs: the Query builder, its serde serialization, the decoding *)
(*     of one hit into SearchResult<T>;                                    *)
(*   - errors.rs: the two conversions into Error.                          *)
(* Rust strings are TLA+ strings, Option<T> is a sequence of length 0      *)
(* (None) or 1 (Some), slices are sequences.                               *)
(***************************************************************************)
EXTENDS Integers, Sequences, FiniteSets, TLC

VARIABLES
    queries,    \* the Query values alive: queries[1] is the builder, the rest are build() results
    hist,       \* hist[i]: the with_<field> calls that produced queries[i], oldest first
    executed,   \* executed[i]: how many times execute was called on queries[i]
    touched,    \* touched[i]: a with_<field> call was made on queries[i] after an execute on it
    steps,      \* operations performed so far
    body,       \* errors.rs: the response body handed to Error::from(&str)
    received,   \* errors.rs: the number of pieces body was received in
    failure,    \* errors.rs: the reqwest::Error handed to Error::from(reqwest::Error)
    err,        \* errors.rs: None, or Some(the Error returned by the last conversion)
    hit,        \* search.rs: the JSON object of one hit, as received
    decoded     \* search.rs: None, or Some(the outcome of decoding hit into SearchResult<T>)

qvars == <<queries, hist, executed, touched, steps>>
evars == <<body, received, failure, err>>
dvars == <<hit, decoded>>
vars == <<queries, hist, executed, touched, steps, body, received, failure, err, hit, decoded>>

\* The number of operations (with_<field>, build, execute) one behaviour performs.
MaxOps == 3
\* The number of pieces a response body is put together from.
MaxPieces == 3

-----------------------------------------------------------------------------
(* Option<T> *)

None == <<>>
Some(v) == <<v>>
IsNone(o) == Len(o) = 0
IsSome(o) == Len(o) = 1
Unwrap(o) == o[1]

-----------------------------------------------------------------------------
(* search.rs: Query *)

\* Query::new
New(query) ==
    [ query                   |-> query,
      offset                  |-> None,
      limit                   |-> None,
      filters                 |-> None,
      facet_filters           |-> None,
      facets_distribution     |-> None,
      attributes_to_retrieve  |-> None,
      attributes_to_crop      |-> None,
      attributes_to_highlight |-> None,
      crop_length             |-> None,
      matches                 |-> None ]

with_offset(self, offset) == [self EXCEPT !.offset = Some(offset)]
\* with_limit writing the field of its neighbour.
with_limit_wrong_field(self, limit) == [self EXCEPT !.offset = Some(limit)]
with_limit(self, limit) == [self EXCEPT !.limit = Some(limit)]
with_filters(self, filters) == [self EXCEPT !.filters = Some(filters)]
with_facet_filters(self, facet_filters) ==
    [self EXCEPT !.facet_filters = Some(facet_filters)]
with_facets_distribution(self, facets_distribution) ==
    [self EXCEPT !.facets_distribution = Some(facets_distribution)]
with_attributes_to_retrieve(self, attributes_to_retrieve) ==
    [self EXCEPT !.attributes_to_retrieve = Some(attributes_to_retrieve)]
with_attributes_to_crop(self, attributes_to_crop) ==
    [self EXCEPT !.attributes_to_crop = Some(attributes_to_crop)]
with_attributes_to_highlight(self, attributes_to_highlight) ==
    [self EXCEPT !.attributes_to_highlight = Some(attributes_to_highlight)]
with_crop_length(self, crop_length) == [self EXCEPT !.crop_length = Some(crop_length)]
with_matches(self, matches) == [self EXCEPT !.matches = Some(matches)]

\* A clone that forgets one field.
CloneForgetful(self) == [self EXCEPT !.facets_distribution = None]

\* #[derive(Clone)]: every field is Copy (a number, a bool, a shared reference),
\* so the clone holds the same field values.
Clone(self) == self

\* Query::build
build(self) == Clone(self)


-----------------------------------------------------------------------------
(* serde_json's compact writer, as far as the types of Query need it *)

RECURSIVE Escape(_)
\* A JSON string's content: '"' and '\' are written with a backslash before them.
Escape(s) ==
    IF Len(s) = 0 THEN ""
    ELSE LET c == SubSeq(s, 1, 1)
             rest == Escape(SubSeq(s, 2, Len(s)))
         IN  IF c = "\"" \/ c = "\\" THEN "\\" \o c \o rest ELSE c \o rest

JsonStr(s) == "\"" \o Escape(s) \o "\""
JsonNum(n) == ToString(n)
JsonBool(b) == IF b THEN "true" ELSE "false"
JsonNull == "null"

RECURSIVE Join(_)
\* The elements of a sequence of JSON texts, separated by commas.
Join(texts) ==
    IF Len(texts) = 0 THEN ""
    ELSE IF Len(texts) = 1 THEN texts[1]
    ELSE texts[1] \o "," \o Join(Tail(texts))

JsonArray(texts) == "[" \o Join(texts) \o "]"

\* Option<usize>: Some(n) is written as n, None as null.
SerOptNum(o) == IF IsSome(o) THEN JsonNum(Unwrap(o)) ELSE JsonNull
\* Option<&str>
SerOptStr(o) == IF IsSome(o) THEN JsonStr(Unwrap(o)) ELSE JsonNull
\* Option<bool>
SerOptBool(o) == IF IsSome(o) THEN JsonBool(Unwrap(o)) ELSE JsonNull
\* &[&str]
SerStrList(l) == JsonArray([k \in 1..Len(l) |-> JsonStr(l[k])])
\* Option<&[&str]>
SerOptStrList(o) == IF IsSome(o) THEN SerStrList(Unwrap(o)) ELSE JsonNull
\* Option<&[&[&str]]>
SerOptFacetFilters(o) ==
    IF IsSome(o)
    THEN JsonArray([k \in 1..Len(Unwrap(o)) |-> SerStrList(Unwrap(o)[k])])
    ELSE JsonNull
\* AttributeToCrop = (&str, Option<usize>): a tuple is written as a two-element array.
SerAttributeToCrop(a) == JsonArray(<<JsonStr(a[1]), SerOptNum(a[2])>>)
\* Option<&[AttributeToCrop]>
SerOptCropList(o) ==
    IF IsSome(o)
    THEN JsonArray([k \in 1..Len(Unwrap(o)) |-> SerAttributeToCrop(Unwrap(o)[k])])
    ELSE JsonNull

\* The Option<T> inside an Option<Option<T>> (None when there is none).
Inner(data) == IF IsSome(data) THEN Unwrap(data) ELSE None

\* The wildcard written as the one-element list ["*"].
serialize_wildcard_as_list(data, inner) ==
    IF IsSome(data) /\ IsNone(Unwrap(data)) THEN "[\"*\"]"
    ELSE IF IsSome(data) THEN inner
    ELSE JsonNull

\* serialize_with_wildcard: data is an Option<Option<T>>, inner is what
\* data.serialize(s) writes for the Option<T> inside it.
serialize_with_wildcard(data, inner) ==
    IF IsSome(data) /\ IsNone(Unwrap(data)) THEN JsonStr("*")
    ELSE IF IsSome(data) THEN inner
    ELSE JsonNull

\* No skip_serializing_if: a None field is written.
SkipNever(o) == FALSE

\* #[serde(skip_serializing_if = "Option::is_none")]
SkipSerializingIf(o) == IsNone(o)

\* One field of the derived Serialize: nothing when skipped, else <<key, text>>.
SerializeField(key, o, text) ==
    IF SkipSerializingIf(o) THEN <<>> ELSE << <<key, text>> >>

\* The list ["*"] taken for the wildcard.
SerStarAsWildcard(o) == IF o = Some(<<"*">>) THEN JsonStr("*") ELSE SerOptStrList(o)

\* The attributes_to_retrieve field: a plain Option<&[&str]>, no serialize_with.
SerAttributesToRetrieve(o) == SerOptStrList(o)

\* #[derive(Serialize)] #[serde(rename_all = "camelCase")] on Query: the fields in
\* declaration order, as <<key, JSON text of the value>>.
SerializeFields(self) ==
    << <<"q", JsonStr(self.query)>> >>
    \o SerializeField("offset", self.offset, SerOptNum(self.offset))
    \o SerializeField("limit", self.limit, SerOptNum(self.limit))
    \o SerializeField("filters", self.filters, SerOptStr(self.filters))
    \o SerializeField("facetFilters", self.facet_filters,
                      SerOptFacetFilters(self.facet_filters))
    \o SerializeField("facetsDistribution", self.facets_distribution,
                      serialize_with_wildcard(self.facets_distribution,
                          SerOptStrList(Inner(self.facets_distribution))))
    \o SerializeField("attributesToRetrieve", self.attributes_to_retrieve,
                      SerAttributesToRetrieve(self.attributes_to_retrieve))
    \o SerializeField("attributesToCrop", self.attributes_to_crop,
                      serialize_with_wildcard(self.attributes_to_crop,
                          SerOptCropList(Inner(self.attributes_to_crop))))
    \o SerializeField("cropLength", self.crop_length, SerOptNum(self.crop_length))
    \o SerializeField("attributesToHighlight", self.attributes_to_highlight,
                      serialize_with_wildcard(self.attributes_to_highlight,
                          SerOptStrList(Inner(self.attributes_to_highlight))))
    \o SerializeField("matches", self.matches, SerOptBool(self.matches))

\* The request as JSON text: {"key":value,...}
ToJson(fields) ==
    "{" \o Join([k \in 1..Len(fields) |-> JsonStr(fields[k][1]) \o ":" \o fields[k][2]]) \o "}"

Serialize(self) == ToJson(SerializeFields(self))

\* The keys of a serialization, and the text under one key (None when absent).
Keys(fields) == {fields[k][1] : k \in 1..Len(fields)}
Entry(fields, key) ==
    LET at == {k \in 1..Len(fields) : fields[k][1] = key}
    IN  IF at = {} THEN None ELSE Some(fields[CHOOSE k \in at : TRUE][2])

-----------------------------------------------------------------------------
(* The arguments the operations are called with *)

QueryStrings == {"space"}
OffsetArgs == {42}
LimitArgs == {21}
FiltersArgs == {"title = \"a\\b\""}
FacetFiltersArgs == { << <<"kind:a", "kind:b">>, <<"year:1">> >> }
\* Option<&[&str]>: None is the wildcard
StrSelectorArgs == {None, Some(<<>>), Some(<<"*">>)}
AttributesToRetrieveArgs == {<<"*">>, <<"title", "id">>}
\* Option<&[(&str, Option<usize>)]>: None is the wildcard
AttributesToCropArgs == {None, Some(<<>>), Some(<< <<"*", None>>, <<"title", Some(10)>> >>)}
CropLengthArgs == {10}
MatchesArgs == {TRUE}

-----------------------------------------------------------------------------
(* The operations on the Query values *)

\* execute taking the Query's configuration with it.
execute_consuming(self) == New(self.query)

\* execute borrows self (&'a self) and hands the borrow to Index::search: the
\* Query it is called on is what it was.
execute(self) == self

\* A with_<field> call on queries[i], which becomes q; call is recorded in hist[i].
Configure(i, q, call) ==
    /\ steps < MaxOps
    /\ queries' = [queries EXCEPT ![i] = q]
    /\ hist' = [hist EXCEPT ![i] = Append(@, call)]
    /\ touched' = [touched EXCEPT ![i] = @ \/ executed[i] > 0]
    /\ steps' = steps + 1
    /\ UNCHANGED <<executed, evars, dvars>>

WithOffset(i) ==
    \E v \in OffsetArgs :
        Configure(i, with_offset(queries[i], v), [f |-> "offset", v |-> v])
WithLimit(i) ==
    \E v \in LimitArgs :
        Configure(i, with_limit(queries[i], v), [f |-> "limit", v |-> v])
WithFilters(i) ==
    \E v \in FiltersArgs :
        Configure(i, with_filters(queries[i], v), [f |-> "filters", v |-> v])
WithFacetFilters(i) ==
    \E v \in FacetFiltersArgs :
        Configure(i, with_facet_filters(queries[i], v), [f |-> "facet_filters", v |-> v])
WithFacetsDistribution(i) ==
    \E v \in StrSelectorArgs :
        Configure(i, with_facets_distribution(queries[i], v),
                  [f |-> "facets_distribution", v |-> v])
WithAttributesToRetrieve(i) ==
    \E v \in AttributesToRetrieveArgs :
        Configure(i, with_attributes_to_retrieve(queries[i], v),
                  [f |-> "attributes_to_retrieve", v |-> v])
WithAttributesToCrop(i) ==
    \E v \in AttributesToCropArgs :
        Configure(i, with_attributes_to_crop(queries[i], v),
                  [f |-> "attributes_to_crop", v |-> v])
WithAttributesToHighlight(i) ==
    \E v \in StrSelectorArgs :
        Configure(i, with_attributes_to_highlight(queries[i], v),
                  [f |-> "attributes_to_highlight", v |-> v])
WithCropLength(i) ==
    \E v \in CropLengthArgs :
        Configure(i, with_crop_length(queries[i], v), [f |-> "crop_length", v |-> v])
WithMatches(i) ==
    \E v \in MatchesArgs :
        Configure(i, with_matches(queries[i], v), [f |-> "matches", v |-> v])

\* Query::build on queries[i]: the clone is a new value, made by the calls made so far.
Build(i) ==
    /\ steps < MaxOps
    /\ queries' = Append(queries, build(queries[i]))
    /\ hist' = Append(hist, hist[i])
    /\ executed' = Append(executed, 0)
    /\ touched' = Append(touched, FALSE)
    /\ steps' = steps + 1
    /\ UNCHANGED <<evars, dvars>>

\* Query::execute on queries[i]
Execute(i) ==
    /\ steps < MaxOps
    /\ queries' = [queries EXCEPT ![i] = execute(@)]
    /\ executed' = [executed EXCEPT ![i] = @ + 1]
    /\ steps' = steps + 1
    /\ UNCHANGED <<hist, touched, evars, dvars>>

-----------------------------------------------------------------------------
(* errors.rs: Error and the conversions into it *)

\* An Error: the variant, the String of Unknown, the reqwest::Error of Http.
Error(kind, message, source) == [kind |-> kind, message |-> message, source |-> source]

UnreachableServer == Error("UnreachableServer", None, None)
IndexAlreadyExist == Error("IndexAlreadyExist", None, None)
IndexNotFound == Error("IndexNotFound", None, None)
InvalidIndexUid == Error("InvalidIndexUid", None, None)
CantInferPrimaryKey == Error("CantInferPrimaryKey", None, None)
ServerInMaintenance == Error("ServerInMaintenance", None, None)
Unknown(message) == Error("Unknown", Some(message), None)
Http(error) == Error("Http", None, Some(error))

\* str::starts_with, str::ends_with
starts_with(m, pat) == Len(m) >= Len(pat) /\ SubSeq(m, 1, Len(pat)) = pat
ends_with(m, pat) == Len(m) >= Len(pat) /\ SubSeq(m, Len(m) - Len(pat) + 1, Len(m)) = pat

IndexAlreadyExistBody == "{\"message\":\"Impossible to create index; index already exists\"}"
InvalidIndexUidBody == "{\"message\":\"Index must have a valid uid; Index uid can be of type integer or string only composed of alphanumeric characters, hyphens (-) and underscores (_).\"}"
CantInferPrimaryKeyBody == "{\"message\":\"Could not infer a primary key\"}"
MaintenancePrefix == "{\"message\":\"Server is in maintenance, please try again later\""
IndexPrefix == "{\"message\":\"Index "
NotFoundSuffix == " not found\"}"

\* The fifth pattern without its ends_with test.
MatchesAnyIndexMessage(k, message) ==
    CASE k = 1 -> message = IndexAlreadyExistBody
      [] k = 2 -> message = InvalidIndexUidBody
      [] k = 3 -> message = CantInferPrimaryKeyBody
      [] k = 4 -> starts_with(message, MaintenancePrefix)
      [] k = 5 -> starts_with(message, IndexPrefix)

\* The test of the k-th arm of the match in Error::from(&str).
Matches(k, message) ==
    CASE k = 1 -> message = IndexAlreadyExistBody
      [] k = 2 -> message = InvalidIndexUidBody
      [] k = 3 -> message = CantInferPrimaryKeyBody
      [] k = 4 -> starts_with(message, MaintenancePrefix)
      [] k = 5 -> starts_with(message, IndexPrefix) /\ ends_with(message, NotFoundSuffix)

\* What the k-th arm returns.
Arm(k) ==
    CASE k = 1 -> IndexAlreadyExist
      [] k = 2 -> InvalidIndexUid
      [] k = 3 -> CantInferPrimaryKey
      [] k = 4 -> ServerInMaintenance
      [] k = 5 -> IndexNotFound

\* The last arm returning an Unknown with nothing in it.
from_str_dropping(message) ==
    IF Matches(1, message) THEN Arm(1)
    ELSE IF Matches(2, message) THEN Arm(2)
    ELSE IF Matches(3, message) THEN Arm(3)
    ELSE IF Matches(4, message) THEN Arm(4)
    ELSE IF Matches(5, message) THEN Arm(5)
    ELSE Unknown("")

\* impl From<&str> for Error: the arms are tried in order, the last takes the rest.
from_str(message) ==
    IF Matches(1, message) THEN Arm(1)
    ELSE IF Matches(2, message) THEN Arm(2)
    ELSE IF Matches(3, message) THEN Arm(3)
    ELSE IF Matches(4, message) THEN Arm(4)
    ELSE IF Matches(5, message) THEN Arm(5)
    ELSE Unknown(message)

\* A reqwest::Error: what failed, and the status code it carries, if any.
TransportFailures ==
    { [kind |-> "connect", status |-> None],
      [kind |-> "timeout", status |-> None],
      [kind |-> "decode", status |-> None],
      [kind |-> "status", status |-> Some(404)],
      [kind |-> "status", status |-> Some(500)],
      [kind |-> "decode", status |-> Some(200)] }

\* reqwest::Error::status
status(error) == error.status

\* Every transport failure taken for an unreachable server.
from_reqwest_unreachable(error) == UnreachableServer

\* impl From<reqwest::Error> for Error
from_reqwest(error) ==
    IF IsNone(status(error)) THEN UnreachableServer ELSE Http(error)

\* What response bodies are put together from.
Pieces ==
    { IndexAlreadyExistBody, InvalidIndexUidBody, CantInferPrimaryKeyBody,
      MaintenancePrefix, IndexPrefix, "{\"message\":\"Index", NotFoundSuffix,
      "{\"message\":\"Could not infer a primary key\"", "abc", "}",
      "{\"message\":\"teapot\"}" }

\* One more piece of the response body arrives.
Receive ==
    /\ IsNone(err)
    /\ IsNone(failure)
    /\ received < MaxPieces
    /\ \E piece \in Pieces : body' = body \o piece
    /\ received' = received + 1
    /\ UNCHANGED <<failure, err, qvars, dvars>>

\* The body of a non-success response is converted: Error::from(body).
Classify ==
    /\ IsNone(err)
    /\ IsNone(failure)
    /\ err' = Some(from_str(body))
    /\ UNCHANGED <<body, received, failure, qvars, dvars>>

\* The transport fails, and its error is converted: Error::from(error).
Fail ==
    /\ IsNone(err)
    /\ IsNone(failure)
    /\ \E error \in TransportFailures :
           /\ failure' = Some(error)
           /\ err' = Some(from_reqwest(error))
    /\ UNCHANGED <<body, received, qvars, dvars>>

-----------------------------------------------------------------------------
(* search.rs: decoding one hit into SearchResult<T> *)

\* JSON values: a tag, then the content. An object is a function from its keys.
JNull == <<"null">>
JStr(str) == <<"str", str>>
JNum(n) == <<"num", n>>
JArr(elems) == <<"arr", elems>>
JObj(members) == <<"obj", members>>

\* Result<T, serde_json::Error>
Ok(v) == <<"Ok", v>>
Err == <<"Err">>
IsOk(r) == r[1] = "Ok"

\* The object made of the keys of obj that are not in keys.
Without(obj, keys) == [k \in (DOMAIN obj) \ keys |-> obj[k]]

\* The document type T: { title: String, and every other field it is given }.
DecodeDoc(v) ==
    IF v[1] = "obj" /\ "title" \in DOMAIN v[2] /\ v[2]["title"][1] = "str"
    THEN Ok([title |-> v[2]["title"][2], rest |-> Without(v[2], {"title"})])
    ELSE Err

\* MatchRange { start: usize, length: usize }
IsMatchRange(v) ==
    /\ v[1] = "obj"
    /\ {"start", "length"} \subseteq DOMAIN v[2]
    /\ v[2]["start"][1] = "num"
    /\ v[2]["length"][1] = "num"

\* HashMap<String, Vec<MatchRange>>
DecodeMatchesInfo(v) ==
    IF /\ v[1] = "obj"
       /\ \A k \in DOMAIN v[2] :
              /\ v[2][k][1] = "arr"
              /\ \A n \in 1..Len(v[2][k][2]) : IsMatchRange(v[2][k][2][n])
    THEN Ok([k \in DOMAIN v[2] |->
                [n \in 1..Len(v[2][k][2]) |->
                    [start |-> v[2][k][2][n][2]["start"][2],
                     length |-> v[2][k][2][n][2]["length"][2]]]])
    ELSE Err

\* Option<T>: null is None, anything else is Some(T decoded from it).
DecodeOptionDoc(v) ==
    IF v = JNull THEN Ok(None)
    ELSE IF IsOk(DecodeDoc(v)) THEN Ok(Some(DecodeDoc(v)[2]))
    ELSE Err

DecodeOptionMatchesInfo(v) ==
    IF v = JNull THEN Ok(None)
    ELSE IF IsOk(DecodeMatchesInfo(v)) THEN Ok(Some(DecodeMatchesInfo(v)[2]))
    ELSE Err

\* The struct's outcome from the outcomes of its three fields.
SearchResultOf(result, formatted_result, matches_info) ==
    IF IsOk(result) /\ IsOk(formatted_result) /\ IsOk(matches_info)
    THEN Ok([result |-> result[2],
             formatted_result |-> formatted_result[2],
             matches_info |-> matches_info[2]])
    ELSE Err

\* A decoder that hands T every key of the hit, the two renamed ones included.
DecodeUnflattened(object) ==
    SearchResultOf(
        DecodeDoc(JObj(object)),
        IF "_formatted" \in DOMAIN object
        THEN DecodeOptionDoc(object["_formatted"]) ELSE Ok(None),
        IF "_matchesInfo" \in DOMAIN object
        THEN DecodeOptionMatchesInfo(object["_matchesInfo"]) ELSE Ok(None))

\* #[derive(Deserialize)] on SearchResult<T>: the keys _formatted and _matchesInfo
\* go to the two Option fields (None when the key is missing), every other key
\* goes to the flattened T.
DecodeSearchResult(object) ==
    SearchResultOf(
        DecodeDoc(JObj(Without(object, {"_formatted", "_matchesInfo"}))),
        IF "_formatted" \in DOMAIN object
        THEN DecodeOptionDoc(object["_formatted"]) ELSE Ok(None),
        IF "_matchesInfo" \in DOMAIN object
        THEN DecodeOptionMatchesInfo(object["_matchesInfo"]) ELSE Ok(None))

\* The object with the members that are Some, under their keys.
Object(title, id, formatted, matchesInfo) ==
    LET given == <<title, id, formatted, matchesInfo>>
        key == <<"title", "id", "_formatted", "_matchesInfo">>
        at(k) == CHOOSE n \in 1..4 : key[n] = k
    IN  [k \in {key[n] : n \in {m \in 1..4 : IsSome(given[m])}} |-> Unwrap(given[at(k)])]

FormattedFoo == JObj([title |-> JStr("<em>Foo</em>")])
FormattedFooId == JObj([title |-> JStr("<em>Foo</em>"), id |-> JNum(7)])
MatchesInfoTitle ==
    JObj([title |-> JArr(<< JObj([start |-> JNum(0), length |-> JNum(3)]) >>)])

\* The hits the decoder is given.
Hits ==
    { Object(title, id, formatted, matchesInfo) :
        title \in {None, Some(JStr("Foo")), Some(JNum(1))},
        id \in {None, Some(JNum(7))},
        formatted \in {None, Some(JNull), Some(FormattedFoo), Some(FormattedFooId),
                       Some(JObj([id |-> JNum(7)])), Some(JStr("Foo"))},
        matchesInfo \in {None, Some(JNull), Some(MatchesInfoTitle), Some(JStr("x"))} }

\* One hit of a response is decoded.
Decode ==
    /\ IsNone(decoded)
    /\ decoded' = Some(DecodeSearchResult(hit))
    /\ UNCHANGED <<hit, qvars, evars>>

\* Idle values of the variables a specification does not use.
IdleErrors == body = "" /\ received = 0 /\ failure = None /\ err = None
IdleDecoder == hit = <<>> /\ decoded = None

\* Query::new(q), nothing called yet.
Init ==
    /\ \E q \in QueryStrings : queries = <<New(q)>>
    /\ hist = << <<>> >>
    /\ executed = <<0>>
    /\ touched = <<FALSE>>
    /\ steps = 0
    /\ IdleErrors
    /\ IdleDecoder

Next ==
    \/ \E i \in 1..Len(queries) : WithOffset(i)
    \/ \E i \in 1..Len(queries) : WithLimit(i)
    \/ \E i \in 1..Len(queries) : WithFilters(i)
    \/ \E i \in 1..Len(queries) : WithFacetFilters(i)
    \/ \E i \in 1..Len(queries) : WithFacetsDistribution(i)
    \/ \E i \in 1..Len(queries) : WithAttributesToRetrieve(i)
    \/ \E i \in 1..Len(queries) : WithAttributesToCrop(i)
    \/ \E i \in 1..Len(queries) : WithAttributesToHighlight(i)
    \/ \E i \in 1..Len(queries) : WithCropLength(i)
    \/ \E i \in 1..Len(queries) : WithMatches(i)
    \/ \E i \in 1..Len(queries) : Build(i)
    \/ \E i \in 1..Len(queries) : Execute(i)

\* Every operation on every Query alive.
Spec == Init /\ [][Next]_vars

\* The builder alone: Query::new followed by with_<field> calls.
NextBuilder ==
    \/ WithOffset(1)
    \/ WithLimit(1)
    \/ WithFilters(1)
    \/ WithFacetFilters(1)
    \/ WithFacetsDistribution(1)
    \/ WithAttributesToRetrieve(1)
    \/ WithAttributesToCrop(1)
    \/ WithAttributesToHighlight(1)
    \/ WithCropLength(1)
    \/ WithMatches(1)

SpecBuilder == Init /\ [][NextBuilder]_vars

\* A Query that is not touched.
IdleQuery ==
    /\ queries = <<New("space")>>
    /\ hist = << <<>> >>
    /\ executed = <<0>>
    /\ touched = <<FALSE>>
    /\ steps = 0

\* errors.rs: one failed request.
InitErrors == IdleQuery /\ IdleErrors /\ IdleDecoder
NextErrors == Receive \/ Classify \/ Fail
SpecErrors == InitErrors /\ [][NextErrors]_vars

\* search.rs: one hit to decode.
InitDecoder == IdleQuery /\ IdleErrors /\ hit \in Hits /\ decoded = None
NextDecoder == Decode
SpecDecoder == InitDecoder /\ [][NextDecoder]_vars

-----------------------------------------------------------------------------
(* What the claims about Query are stated with *)

\* The with_<field> method a recorded call names, applied to self.
Apply(self, call) ==
    CASE call.f = "offset" -> with_offset(self, call.v)
      [] call.f = "limit" -> with_limit(self, call.v)
      [] call.f = "filters" -> with_filters(self, call.v)
      [] call.f = "facet_filters" -> with_facet_filters(self, call.v)
      [] call.f = "facets_distribution" -> with_facets_distribution(self, call.v)
      [] call.f = "attributes_to_retrieve" -> with_attributes_to_retrieve(self, call.v)
      [] call.f = "attributes_to_crop" -> with_attributes_to_crop(self, call.v)
      [] call.f = "attributes_to_highlight" -> with_attributes_to_highlight(self, call.v)
      [] call.f = "crop_length" -> with_crop_length(self, call.v)
      [] call.f = "matches" -> with_matches(self, call.v)

RECURSIVE Replay(_, _)
\* Query::new(query) followed by the calls, in order.
Replay(self, calls) ==
    IF Len(calls) = 0 THEN self ELSE Replay(Apply(self, Head(calls)), Tail(calls))

\* The key each optional field is sent under.
WireKey(f) ==
    CASE f = "offset" -> "offset"
      [] f = "limit" -> "limit"
      [] f = "filters" -> "filters"
      [] f = "facet_filters" -> "facetFilters"
      [] f = "facets_distribution" -> "facetsDistribution"
      [] f = "attributes_to_retrieve" -> "attributesToRetrieve"
      [] f = "attributes_to_crop" -> "attributesToCrop"
      [] f = "attributes_to_highlight" -> "attributesToHighlight"
      [] f = "crop_length" -> "cropLength"
      [] f = "matches" -> "matches"

\* The JSON text expected for each list the operations are called with.
ExpectedStrList(l) ==
    CASE l = <<>> -> "[]"
      [] l = <<"*">> -> "[\"*\"]"
      [] l = <<"title", "id">> -> "[\"title\",\"id\"]"

ExpectedCropList(l) ==
    CASE l = <<>> -> "[]"
      [] Len(l) = 2 -> "[[\"*\",null],[\"title\",10]]"

\* The JSON text expected under a field's key after the call.
Expected(call) ==
    CASE call.f \in {"offset", "limit", "crop_length"} ->
             (CASE call.v = 42 -> "42" [] call.v = 21 -> "21" [] call.v = 10 -> "10")
      [] call.f = "filters" -> "\"title = \\\"a\\\\b\\\"\""
      [] call.f = "facet_filters" -> "[[\"kind:a\",\"kind:b\"],[\"year:1\"]]"
      [] call.f \in {"facets_distribution", "attributes_to_highlight"} ->
             IF IsNone(call.v) THEN "\"*\"" ELSE ExpectedStrList(Unwrap(call.v))
      [] call.f = "attributes_to_retrieve" -> ExpectedStrList(call.v)
      [] call.f = "attributes_to_crop" ->
             IF IsNone(call.v) THEN "\"*\"" ELSE ExpectedCropList(Unwrap(call.v))
      [] call.f = "matches" -> IF call.v THEN "true" ELSE "false"

ExpectedQ(query) == CASE query = "space" -> "\"space\""

\* The fields a history has a call for, and the most recent call for one of them.
Called(calls) == {calls[k].f : k \in 1..Len(calls)}
LastCall(calls, f) ==
    calls[CHOOSE k \in 1..Len(calls) :
            /\ calls[k].f = f
            /\ \A m \in (k + 1)..Len(calls) : calls[m].f # f]

ExpectedList(f, l) ==
    IF f = "attributes_to_crop" THEN ExpectedCropList(l) ELSE ExpectedStrList(l)

\* The value a field holds after the calls: None if never set, else Some(the last argument).
FieldAfter(calls, f) == IF f \in Called(calls) THEN Some(LastCall(calls, f).v) ELSE None

Wildcard == "\"*\""

TriStateFields == {"facets_distribution", "attributes_to_crop", "attributes_to_highlight"}

\* calls with the calls at k and k + 1 made in the other order.
Swap(calls, k) ==
    [m \in 1..Len(calls) |->
        IF m = k THEN calls[k + 1] ELSE IF m = k + 1 THEN calls[k] ELSE calls[m]]

\* The places where two calls on distinct fields follow each other.
Swappable(calls) == {k \in 1..(Len(calls) - 1) : calls[k].f # calls[k + 1].f}

IsCall(call, f, v) == call.f = f /\ call.v = v

\* How a tri-state field d of kind f is sent, e being the entry under its key.
C1Sent(f, d, e) ==
    /\ IsNone(d) => e = None
    /\ (IsSome(d) /\ IsNone(Unwrap(d))) => e = Some(Wildcard)
    /\ (IsSome(d) /\ IsSome(Unwrap(d))) =>
           /\ e = Some(ExpectedList(f, Unwrap(Unwrap(d))))
           /\ e # Some(Wildcard)
           /\ e # None

\* The three tri-state fields of self, made by calls and serialized as fields.
C1AllSent(self, calls, fields) ==
    \A f \in TriStateFields :
        /\ self[f] = FieldAfter(calls, f)
        /\ C1Sent(f, self[f], Entry(fields, WireKey(f)))

\* How attributes_to_retrieve, holding d, is sent, e being the entry under its key.
C7Sent(d, e) ==
    /\ IsNone(d) => e = None
    /\ IsSome(d) => e = Some(ExpectedStrList(Unwrap(d))) /\ e # Some(Wildcard)

\* What the serialization of a Query made by calls holds.
C2Sent(query, calls, fields) ==
    /\ fields[1] = <<"q", ExpectedQ(query)>>
    /\ Keys(fields) = {"q"} \cup {WireKey(f) : f \in Called(calls)}
    /\ Len(fields) = Cardinality(Keys(fields))
    /\ \A f \in Called(calls) :
           Entry(fields, WireKey(f)) = Some(Expected(LastCall(calls, f)))
    /\ \A k \in 1..Len(fields) : fields[k][2] # JsonNull
    /\ calls = <<>> => Len(fields) = 1

-----------------------------------------------------------------------------
(* Claims about Query: C5 and C6 under Spec, the others under SpecBuilder *)

\* C1: for facets_distribution, attributes_to_crop and attributes_to_highlight, the
\* field is None iff never set and then its key is absent from the serialization;
\* Some(None) (the last call passed None) is sent as the string "*"; Some(Some(list))
\* is sent as exactly the list; and for every list, the empty one and ["*"] included,
\* the three outputs differ from each other.
C1_TriStateSerialization ==
    \A i \in 1..Len(queries) :
        C1AllSent(queries[i], hist[i], SerializeFields(queries[i]))

C1_Witness ==
    \E i \in 1..Len(queries) :
        /\ queries[i].facets_distribution = Some(Some(<<"*">>))
        /\ queries[i].attributes_to_crop = Some(None)
        /\ queries[i].attributes_to_highlight = Some(Some(<<>>))

\* C2: the serialization holds the key q with the query string, and exactly the keys
\* of the optional fields a with_<field> call was made for, each once and with the
\* value of the most recent call for it; no value is null; with no call made the
\* serialization has exactly one field.
C2_OnlySetFieldsSent ==
    \A i \in 1..Len(queries) :
        C2Sent(queries[i].query, hist[i], SerializeFields(queries[i]))

C2_Witness ==
    \E i \in 1..Len(queries) :
        /\ Len(hist[i]) = 3
        /\ IsCall(hist[i][1], "facets_distribution", Some(<<"*">>))
        /\ IsCall(hist[i][2], "facets_distribution", None)
        /\ hist[i][3].f = "filters"

\* C5, as stated: a Query is executed at most once, and no with_<field> call is
\* made on it after an execute.
C5_ConsumedOnce ==
    \A i \in 1..Len(queries) : executed[i] <= 1 /\ ~touched[i]

\* C5, amended: execute borrows the Query and changes no field of it or of any
\* other Query (it may be executed again, and configured further, afterwards).
C5_ExecuteBorrows ==
    [][(Len(executed') = Len(executed) /\ executed' # executed) => queries' = queries]_vars

C5_Witness ==
    \E i \in 1..Len(queries) : executed[i] >= 2 /\ touched[i] /\ hist[i] # <<>>

\* C6: build returns a Query equal, field by field, to the one it is called on and
\* leaves every existing Query as it was; a with_<field> call on one Query changes
\* no other Query, so a build and the Query it was built from evolve independently.
C6_BuildIndependent ==
    [][\A i \in 1..Len(queries) :
          /\ Build(i) =>
                 /\ Len(queries') = Len(queries) + 1
                 /\ queries'[Len(queries')] = queries[i]
                 /\ \A j \in 1..Len(queries) : queries'[j] = queries[j]
          /\ hist'[i] # hist[i] =>
                 /\ Len(queries') = Len(queries)
                 /\ \A j \in 1..Len(queries) : j # i => queries'[j] = queries[j]
      ]_vars

C6_Witness ==
    /\ Len(queries) >= 2
    /\ Len(hist[1]) = 2
    /\ Len(hist[2]) = 1
    /\ hist[1][1].f = "offset" /\ hist[2][1].f = "offset"
    /\ hist[1][2].f = "limit"
    /\ IsNone(queries[2].limit) /\ IsSome(queries[1].limit)

\* C7, as stated: through the builder attributes_to_retrieve can be put in the
\* wildcard state, which is sent as the string "*", as it can be put in the list
\* state: some with_attributes_to_retrieve call leads to each.
C7_RetrieveTriState ==
    \A i \in 1..Len(queries) :
        /\ \E v \in AttributesToRetrieveArgs :
               Entry(SerializeFields(with_attributes_to_retrieve(queries[i], v)),
                     "attributesToRetrieve") = Some(Wildcard)
        /\ \E v \in AttributesToRetrieveArgs :
               Entry(SerializeFields(with_attributes_to_retrieve(queries[i], v)),
                     "attributesToRetrieve") = Some("[\"*\"]")

\* C7, amended: attributes_to_retrieve is a two-state field: absent (key omitted)
\* or an explicit list (sent as the list); every with_attributes_to_retrieve call
\* puts it in the list state, and it is never sent as the string "*".
C7_RetrieveTwoState ==
    \A i \in 1..Len(queries) :
        /\ queries[i].attributes_to_retrieve = FieldAfter(hist[i], "attributes_to_retrieve")
        /\ C7Sent(queries[i].attributes_to_retrieve,
                  Entry(SerializeFields(queries[i]), "attributesToRetrieve"))
        /\ \A v \in AttributesToRetrieveArgs :
               with_attributes_to_retrieve(queries[i], v).attributes_to_retrieve = Some(v)

C7_Witness ==
    \E i \in 1..Len(queries) :
        /\ Len(hist[i]) = 2
        /\ IsCall(hist[i][1], "attributes_to_retrieve", <<"title", "id">>)
        /\ IsCall(hist[i][2], "attributes_to_retrieve", <<"*">>)

\* C9: the serialized text depends on the final field values only: making the same
\* calls again from Query::new gives the same text, and making them with two
\* neighbouring calls on distinct fields exchanged gives the same field values, which
\* are all that Serialize reads (every history is reachable, so this covers every
\* reordering that keeps the calls on one field in their order); with_offset(42) and
\* with_limit(21), in either order, give {"q":"space","offset":42,"limit":21}.
C9_OrderIndependent ==
    \A i \in 1..Len(queries) :
        /\ Serialize(Replay(New(queries[i].query), hist[i])) = Serialize(queries[i])
        /\ \A k \in Swappable(hist[i]) :
               Replay(New(queries[i].query), Swap(hist[i], k)) = queries[i]
        /\ ( /\ queries[i].query = "space"
             /\ Len(hist[i]) = 2
             /\ \/ IsCall(hist[i][1], "offset", 42) /\ IsCall(hist[i][2], "limit", 21)
                \/ IsCall(hist[i][1], "limit", 21) /\ IsCall(hist[i][2], "offset", 42) )
           => Serialize(queries[i]) = "{\"q\":\"space\",\"offset\":42,\"limit\":21}"

C9_Witness ==
    \E i \in 1..Len(queries) :
        /\ queries[i].query = "space"
        /\ Len(hist[i]) = 2
        /\ IsCall(hist[i][1], "limit", 21)
        /\ IsCall(hist[i][2], "offset", 42)

-----------------------------------------------------------------------------
(* Claims about Error, checked under SpecErrors *)

\* The body was converted (no transport failure was).
Classified == IsSome(err) /\ IsNone(failure)

\* C3, for a body b converted into e.
C3Variant(b, e) ==
    /\ e.kind = "IndexAlreadyExist" <=> b = IndexAlreadyExistBody
    /\ e.kind = "InvalidIndexUid" <=> b = InvalidIndexUidBody
    /\ e.kind = "CantInferPrimaryKey" <=> b = "{\"message\":\"Could not infer a primary key\"}"
    /\ e.kind = "ServerInMaintenance" <=> starts_with(b, MaintenancePrefix)
    /\ e.kind = "IndexNotFound" <=>
           (starts_with(b, "{\"message\":\"Index ") /\ ends_with(b, " not found\"}"))
    /\ e.kind \in {"IndexAlreadyExist", "InvalidIndexUid", "CantInferPrimaryKey",
                   "ServerInMaintenance", "IndexNotFound", "Unknown"}
    /\ e.kind = "Unknown" <=> IsSome(e.message)
    /\ e.kind = "Unknown" => e.message = Some(b)
    /\ IsNone(e.source)

\* C3: Error::from(b) is IndexAlreadyExist, InvalidIndexUid or CantInferPrimaryKey
\* iff b is the exact body of that error, ServerInMaintenance iff b starts with the
\* maintenance prefix, IndexNotFound iff b starts with {"message":"Index  and ends
\* with  not found"}, and Unknown(b), b unchanged, for every other b; it is never
\* UnreachableServer or Http.
C3_BodyClassification == Classified => C3Variant(body, Unwrap(err))

C3_Witness ==
    /\ Classified
    /\ Unwrap(err).kind = "Unknown"
    /\ starts_with(body, IndexPrefix)
    /\ received = 3

\* C4: a transport failure without a status code is converted into
\* UnreachableServer, one with a status code into Http carrying that failure; none
\* into Unknown or a service-level variant.
C4_TransportFailure ==
    IsSome(failure) =>
        /\ IsSome(err)
        /\ IsNone(Unwrap(failure).status) => Unwrap(err) = UnreachableServer
        /\ IsSome(Unwrap(failure).status) =>
               /\ Unwrap(err).kind = "Http"
               /\ Unwrap(err).source = failure
        /\ Unwrap(err).kind \in {"UnreachableServer", "Http"}

C4_Witness ==
    /\ IsSome(failure)
    /\ Unwrap(failure).status = Some(500)
    /\ Unwrap(err).kind = "Http"
    /\ received > 0

\* The orders the five arms can be tried in.
ArmOrders == Permutations(1..5)

\* The variant returned when the arms are tried in order p, matching being the
\* set of the arms whose test holds.
TriedInOrder(p, matching) ==
    IF matching = {} THEN "Unknown"
    ELSE Arm(p[CHOOSE a \in 1..5 : p[a] \in matching /\ \A b \in 1..(a - 1) : p[b] \notin matching]).kind

C10Exclusive(e, matching) ==
    /\ Cardinality(matching) <= 1
    /\ \A p \in ArmOrders : TriedInOrder(p, matching) = e.kind

\* C10: at most one of the five patterns matches a body, so the variant returned
\* is the one any order of the five tests would return.
C10_MutuallyExclusive ==
    Classified => C10Exclusive(Unwrap(err), {k \in 1..5 : Matches(k, body)})

C10_Witness ==
    /\ Classified
    /\ body = "{\"message\":\"Index not found\"}"
    /\ Unwrap(err).kind = "IndexNotFound"

-----------------------------------------------------------------------------
(* Claims about SearchResult<T>, checked under SpecDecoder *)

\* The hit was decoded, and decoding succeeded.
Decoded == IsSome(decoded) /\ IsOk(Unwrap(decoded))

\* The values of _formatted and _matchesInfo that decode.
GoodFormatted == {FormattedFoo, FormattedFooId}
GoodMatchesInfo == {MatchesInfoTitle}

\* What C8 says of the hit h decoded into r, apart from when the two Option fields
\* are Some.
C8Fields(h, r) ==
    /\ r.result.title = h["title"][2]
    /\ DOMAIN r.result.rest = (DOMAIN h) \ {"title", "_formatted", "_matchesInfo"}
    /\ \A k \in DOMAIN r.result.rest : r.result.rest[k] = h[k]
    /\ IsSome(r.formatted_result) =>
           /\ Unwrap(r.formatted_result).title = h["_formatted"][2]["title"][2]
           /\ DOMAIN Unwrap(r.formatted_result).rest = (DOMAIN h["_formatted"][2]) \ {"title"}
    /\ IsSome(r.matches_info) =>
           /\ DOMAIN Unwrap(r.matches_info) = DOMAIN h["_matchesInfo"][2]
           /\ Unwrap(r.matches_info)["title"] = << [start |-> 0, length |-> 3] >>

\* A hit whose document fields decode and whose side-channel keys, where present,
\* hold null or a value that decodes, is decoded.
C8NoFailure(h, d) ==
    ( /\ "title" \in DOMAIN h /\ h["title"][1] = "str"
      /\ "_formatted" \in DOMAIN h => h["_formatted"] \in GoodFormatted \cup {JNull}
      /\ "_matchesInfo" \in DOMAIN h => h["_matchesInfo"] \in GoodMatchesInfo \cup {JNull} )
    => IsOk(d)

\* C8, as stated: result is T decoded from the document fields, without the two
\* side-channel keys; formatted_result is Some(T decoded from the value of
\* _formatted) iff the key _formatted is present; matches_info is Some(the mapping)
\* iff the key _matchesInfo is present; a missing side-channel key is no failure.
C8_SomeIffKeyPresent ==
    /\ IsSome(decoded) => C8NoFailure(hit, Unwrap(decoded))
    /\ Decoded =>
           /\ C8Fields(hit, Unwrap(decoded)[2])
           /\ IsSome(Unwrap(decoded)[2].formatted_result) <=> "_formatted" \in DOMAIN hit
           /\ IsSome(Unwrap(decoded)[2].matches_info) <=> "_matchesInfo" \in DOMAIN hit

\* C8, amended: as stated, but formatted_result (matches_info) is Some iff the key
\* _formatted (_matchesInfo) is present with a value other than null; a key
\* holding null gives None, as a missing key does.
C8_SomeIffKeyNotNull ==
    /\ IsSome(decoded) => C8NoFailure(hit, Unwrap(decoded))
    /\ Decoded =>
           /\ C8Fields(hit, Unwrap(decoded)[2])
           /\ IsSome(Unwrap(decoded)[2].formatted_result) <=>
                  ("_formatted" \in DOMAIN hit /\ hit["_formatted"] # JNull)
           /\ IsSome(Unwrap(decoded)[2].matches_info) <=>
                  ("_matchesInfo" \in DOMAIN hit /\ hit["_matchesInfo"] # JNull)

C8_Witness ==
    /\ Decoded
    /\ DOMAIN hit = {"title", "id", "_formatted", "_matchesInfo"}
    /\ hit["_formatted"] = FormattedFooId
    /\ hit["_matchesInfo"] = JNull
    /\ IsSome(Unwrap(decoded)[2].formatted_result)
    /\ IsNone(Unwrap(decoded)[2].matches_info)

=============================================================================
